---- MODULE Spec2Model ----
(***************************************************************************)
(* Control flow of the two scripts of the repository.                      *)
(*                                                                         *)
(*   Script A  src/avantis_sdk_ping.py            (main, asyncio.run)      *)
(*   Script B  src/jules-scratch/verification/verify_frontend.py (run)     *)
(*                                                                         *)
(* Every call into the SDK or into the browser engine is an external call  *)
(* whose outcome the scripts do not control: it returns, or it raises an   *)
(* exception (a subclass of Exception: playwright Error, TimeoutError,     *)
(* AssertionError of expect).  The outcome is drawn with \E.  print is     *)
(* taken to return normally.  "The browser is closed" is stated as         *)
(* "browser.close() has been called": what the engine does inside close()  *)
(* is not code of the scripts.                                             *)
(***************************************************************************)
EXTENDS Integers, Sequences, FiniteSets, TLC

\* ---------------------------------------------------------------- bounds
\* largest pairs mapping get_pairs_info returns in the model (above the slice)
MaxPairs == 6

\* ------------------------------------------------------ program constants
\* avantis_sdk_ping.py:9   list(pairs.items())[:5]
SliceLen == 5

\* verify_frontend.py:18 / :24  the two screenshot paths
SuccessPath == "verification.png"
ErrorPath == "error.png"

\* verify_frontend.py:20 / :23  the two messages
SuccessMsg == "Screenshot taken successfully."
ErrorMsg == "An error occurred: "

\* avantis_sdk_ping.py:7
FetchingMsg == "Fetching Avantis perp pairs via SDK..."

NoExc == "none"

VARIABLES
  \* Script B
  pc,          \* statement run() is about to execute
  launched,    \* playwright.chromium.launch returned a browser
  e,           \* exception bound by "except Exception as e"
  raised,      \* exception propagating out of run()
  stdout,      \* lines printed by Script B
  files,       \* screenshot files written
  closeCalls,  \* number of calls of browser.close()
  log,         \* statements executed so far, each with its outcome
  exitStatus,  \* <<status>> once the process of Script B has exited
  \* Script A
  pcA,         \* statement main() is about to execute
  pairs,       \* the mapping returned by get_pairs_info, in iteration order
  items,       \* list(pairs.items())[:5]
  idx,         \* entries of items the for loop has consumed
  stdoutA,     \* lines printed by Script A
  fetchCalls,  \* number of calls of get_pairs_info
  raisedA,     \* exception propagating out of main()
  exitStatusA  \* <<status>> once the process of Script A has exited

varsB == <<pc, launched, e, raised, stdout, files, closeCalls, log, exitStatus>>
varsA == <<pcA, pairs, items, idx, stdoutA, fetchCalls, raisedA, exitStatusA>>
vars == <<pc, launched, e, raised, stdout, files, closeCalls, log, exitStatus,
          pcA, pairs, items, idx, stdoutA, fetchCalls, raisedA, exitStatusA>>

\* no exit status yet: the process is running
Running == <<>>

\* ====================================================== Script B : run()

\* exceptions the browser engine raises from an API call / from expect
EngineErrors == {"Error", "TimeoutError"}
AssertErrors == {"AssertionError"}

Trace(step, outcome) == Append(log, <<step, outcome>>)

\* variant: the except clause takes the screenshot without printing the message
ExceptClauseSilent(x) ==
  /\ pc' = "error_screenshot"
  /\ e' = x

\* a statement of the try block raised: control goes to the except clause
ExceptClause(x) ==
  /\ pc' = "print_error"
  /\ e' = x

\* verify_frontend.py:4  outside the try statement
Launch ==
  /\ pc = "launch"
  /\ \/ /\ launched' = TRUE
        /\ pc' = "new_page"
        /\ log' = Trace("launch", "ok")
        /\ UNCHANGED raised
     \/ \E x \in EngineErrors :
          /\ raised' = x
          /\ pc' = "exit"
          /\ log' = Trace("launch", x)
          /\ UNCHANGED launched
  /\ UNCHANGED <<e, stdout, files, closeCalls, exitStatus>>

\* verify_frontend.py:5  outside the try statement as well
NewPage ==
  /\ pc = "new_page"
  /\ \/ /\ pc' = "goto"
        /\ log' = Trace("new_page", "ok")
        /\ UNCHANGED raised
     \/ \E x \in EngineErrors :
          /\ raised' = x
          /\ pc' = "exit"
          /\ log' = Trace("new_page", x)
  /\ UNCHANGED <<launched, e, stdout, files, closeCalls, exitStatus>>

\* variant: an exception of goto is swallowed and the block goes on
GotoSwallow ==
  /\ pc = "goto"
  /\ \/ /\ log' = Trace("goto", "ok")
     \/ \E x \in EngineErrors : log' = Trace("goto", x)
  /\ pc' = "expect_heading"
  /\ UNCHANGED <<launched, e, raised, stdout, files, closeCalls, exitStatus>>

\* verify_frontend.py:9
Goto ==
  /\ pc = "goto"
  /\ \/ /\ pc' = "expect_heading"
        /\ log' = Trace("goto", "ok")
        /\ UNCHANGED e
     \/ \E x \in EngineErrors :
          /\ ExceptClause(x)
          /\ log' = Trace("goto", x)
  /\ UNCHANGED <<launched, raised, stdout, files, closeCalls, exitStatus>>

\* verify_frontend.py:12  to_be_visible(timeout=30000)
ExpectHeading ==
  /\ pc = "expect_heading"
  /\ \/ /\ pc' = "expect_text"
        /\ log' = Trace("expect_heading", "ok")
        /\ UNCHANGED e
     \/ \E x \in AssertErrors \cup EngineErrors :
          /\ ExceptClause(x)
          /\ log' = Trace("expect_heading", x)
  /\ UNCHANGED <<launched, raised, stdout, files, closeCalls, exitStatus>>

\* verify_frontend.py:15  to_be_visible(timeout=60000)
ExpectText ==
  /\ pc = "expect_text"
  /\ \/ /\ pc' = "screenshot"
        /\ log' = Trace("expect_text", "ok")
        /\ UNCHANGED e
     \/ \E x \in AssertErrors \cup EngineErrors :
          /\ ExceptClause(x)
          /\ log' = Trace("expect_text", x)
  /\ UNCHANGED <<launched, raised, stdout, files, closeCalls, exitStatus>>

\* variant: the success screenshot is written to the error path
ScreenshotWrongPath ==
  /\ pc = "screenshot"
  /\ \/ /\ pc' = "print_success"
        /\ files' = files \cup {ErrorPath}
        /\ log' = Trace("screenshot", "ok")
        /\ UNCHANGED e
     \/ \E x \in EngineErrors :
          /\ ExceptClause(x)
          /\ log' = Trace("screenshot", x)
          /\ UNCHANGED files
  /\ UNCHANGED <<launched, raised, stdout, closeCalls, exitStatus>>

\* verify_frontend.py:18
Screenshot ==
  /\ pc = "screenshot"
  /\ \/ /\ pc' = "print_success"
        /\ files' = files \cup {SuccessPath}
        /\ log' = Trace("screenshot", "ok")
        /\ UNCHANGED e
     \/ \E x \in EngineErrors :
          /\ ExceptClause(x)
          /\ log' = Trace("screenshot", x)
          /\ UNCHANGED files
  /\ UNCHANGED <<launched, raised, stdout, closeCalls, exitStatus>>

\* variant: no except clause, the handler's statements follow the try block
PrintSuccessFallThrough ==
  /\ pc = "print_success"
  /\ stdout' = Append(stdout, <<SuccessMsg>>)
  /\ log' = Trace("print_success", "ok")
  /\ pc' = "print_error"
  /\ UNCHANGED <<launched, e, raised, files, closeCalls, exitStatus>>

\* verify_frontend.py:20  end of the try block: on to the finally clause
PrintSuccess ==
  /\ pc = "print_success"
  /\ stdout' = Append(stdout, <<SuccessMsg>>)
  /\ log' = Trace("print_success", "ok")
  /\ pc' = "close"
  /\ UNCHANGED <<launched, e, raised, files, closeCalls, exitStatus>>

\* verify_frontend.py:23
PrintError ==
  /\ pc = "print_error"
  /\ stdout' = Append(stdout, <<ErrorMsg, e>>)
  /\ log' = Trace("print_error", "ok")
  /\ pc' = "error_screenshot"
  /\ UNCHANGED <<launched, e, raised, files, closeCalls, exitStatus>>

\* variant: no finally clause, close() is the last statement of the try block
ErrorScreenshotNoFinally ==
  /\ pc = "error_screenshot"
  /\ \/ /\ files' = files \cup {ErrorPath}
        /\ log' = Trace("error_screenshot", "ok")
        /\ UNCHANGED raised
     \/ \E x \in EngineErrors :
          /\ raised' = x
          /\ log' = Trace("error_screenshot", x)
          /\ UNCHANGED files
  /\ pc' = "exit"
  /\ UNCHANGED <<launched, e, stdout, closeCalls, exitStatus>>

\* verify_frontend.py:24  inside the except clause: an exception raised here
\* is not handled by that clause; it propagates once the finally clause ran
ErrorScreenshot ==
  /\ pc = "error_screenshot"
  /\ \/ /\ files' = files \cup {ErrorPath}
        /\ log' = Trace("error_screenshot", "ok")
        /\ UNCHANGED raised
     \/ \E x \in EngineErrors :
          /\ raised' = x
          /\ log' = Trace("error_screenshot", x)
          /\ UNCHANGED files
  /\ pc' = "close"
  /\ UNCHANGED <<launched, e, stdout, closeCalls, exitStatus>>

\* verify_frontend.py:26-27  the finally clause; an exception raised by
\* close() replaces the one that was propagating
Close ==
  /\ pc = "close"
  /\ closeCalls' = closeCalls + 1
  /\ \/ /\ log' = Trace("close", "ok")
        /\ UNCHANGED raised
     \/ \E x \in EngineErrors :
          /\ raised' = x
          /\ log' = Trace("close", x)
  /\ pc' = "exit"
  /\ UNCHANGED <<launched, e, stdout, files, exitStatus>>

\* verify_frontend.py:29-30  run() returned or raised: the process ends, with
\* status 1 when an exception reaches the top level
Exit ==
  /\ pc = "exit"
  /\ exitStatus' = IF raised = NoExc THEN <<0>> ELSE <<1>>
  /\ pc' = "done"
  /\ UNCHANGED <<launched, e, raised, stdout, files, closeCalls, log>>

InitRun ==
  /\ pc = "launch"
  /\ launched = FALSE
  /\ e = NoExc
  /\ raised = NoExc
  /\ stdout = <<>>
  /\ files = {}
  /\ closeCalls = 0
  /\ log = <<>>
  /\ exitStatus = Running

NextB ==
  \/ Launch \/ NewPage \/ Goto \/ ExpectHeading \/ ExpectText \/ Screenshot
  \/ PrintSuccess \/ PrintError \/ ErrorScreenshot \/ Close \/ Exit

\* ===================================================== Script A : main()

\* exceptions the SDK raises (network failure, malformed response)
SdkErrors == {"ConnectionError", "ValueError"}

\* symbols a pairs mapping is keyed by
Symbols == 1..MaxPairs

\* the opaque info record of a symbol
Info(symbol) == <<"info", symbol>>

\* a mapping in its iteration order: a sequence of keys, no key twice
Mappings ==
  UNION {{m \in [1..n -> Symbols] : \A i, j \in 1..n : m[i] = m[j] => i = j}
         : n \in 0..MaxPairs}

Min(a, b) == IF a <= b THEN a ELSE b

\* variant: the slice bound is off by one
SliceOffByOne(m) == [i \in 1..Min(Len(m), SliceLen + 1) |-> <<m[i], Info(m[i])>>]

\* avantis_sdk_ping.py:9  list(pairs.items())[:5]
Slice(m) == [i \in 1..Min(Len(m), SliceLen) |-> <<m[i], Info(m[i])>>]

\* main() raised: asyncio.run re-raises, nothing catches it
Propagate(x) ==
  /\ raisedA' = x
  /\ pcA' = "exit"

\* avantis_sdk_ping.py:5-6  TraderClient(provider_url)
Construct ==
  /\ pcA = "construct"
  /\ \/ /\ pcA' = "print_fetching"
        /\ UNCHANGED raisedA
     \/ \E x \in SdkErrors : Propagate(x)
  /\ UNCHANGED <<pairs, items, idx, stdoutA, fetchCalls, exitStatusA>>

\* avantis_sdk_ping.py:7
PrintFetching ==
  /\ pcA = "print_fetching"
  /\ stdoutA' = Append(stdoutA, <<FetchingMsg>>)
  /\ pcA' = "fetch"
  /\ UNCHANGED <<pairs, items, idx, fetchCalls, raisedA, exitStatusA>>

\* variant: a failed fetch is retried once
FetchPairsRetry ==
  /\ pcA = "fetch"
  /\ fetchCalls' = fetchCalls + 1
  /\ \/ \E m \in Mappings :
          /\ pairs' = m
          /\ items' = Slice(m)
          /\ pcA' = "loop"
          /\ UNCHANGED raisedA
     \/ \E x \in SdkErrors :
          /\ IF fetchCalls = 0
               THEN UNCHANGED <<pcA, raisedA>>
               ELSE Propagate(x)
          /\ UNCHANGED <<pairs, items>>
  /\ UNCHANGED <<idx, stdoutA, exitStatusA>>

\* avantis_sdk_ping.py:8-9  await get_pairs_info(), then the slice the for
\* loop iterates over
FetchPairs ==
  /\ pcA = "fetch"
  /\ fetchCalls' = fetchCalls + 1
  /\ \/ \E m \in Mappings :
          /\ pairs' = m
          /\ items' = Slice(m)
          /\ pcA' = "loop"
          /\ UNCHANGED raisedA
     \/ \E x \in SdkErrors :
          /\ Propagate(x)
          /\ UNCHANGED <<pairs, items>>
  /\ UNCHANGED <<idx, stdoutA, exitStatusA>>

\* avantis_sdk_ping.py:9-10  one iteration of the for loop
PrintPair ==
  /\ pcA = "loop"
  /\ idx < Len(items)
  /\ idx' = idx + 1
  /\ stdoutA' = Append(stdoutA, items[idx + 1])
  /\ UNCHANGED <<pcA, pairs, items, fetchCalls, raisedA, exitStatusA>>

\* avantis_sdk_ping.py:9  the iterator is exhausted: main() returns
LoopEnd ==
  /\ pcA = "loop"
  /\ idx >= Len(items)
  /\ pcA' = "exit"
  /\ UNCHANGED <<pairs, items, idx, stdoutA, fetchCalls, raisedA, exitStatusA>>

\* avantis_sdk_ping.py:12-13  asyncio.run(main()) returned or raised
ExitA ==
  /\ pcA = "exit"
  /\ exitStatusA' = IF raisedA = NoExc THEN <<0>> ELSE <<1>>
  /\ pcA' = "done"
  /\ UNCHANGED <<pairs, items, idx, stdoutA, fetchCalls, raisedA>>

InitMain ==
  /\ pcA = "construct"
  /\ pairs = <<>>
  /\ items = <<>>
  /\ idx = 0
  /\ stdoutA = <<>>
  /\ fetchCalls = 0
  /\ raisedA = NoExc
  /\ exitStatusA = Running

NextA ==
  \/ Construct \/ PrintFetching \/ FetchPairs \/ PrintPair \/ LoopEnd \/ ExitA

\* ======================================================== specifications

Init == InitRun /\ InitMain

\* Script B alone; Script A is not started
SpecB == Init /\ [][NextB /\ UNCHANGED varsA]_vars

\* Script B, every external call eventually returning or raising
FairSpecB == SpecB /\ WF_vars(NextB /\ UNCHANGED varsA)

\* Script A alone; Script B is not started
SpecA == Init /\ [][NextA /\ UNCHANGED varsB]_vars

\* ================================================================ claims

\* --- reading the log of Script B
Passed(step) == \E i \in DOMAIN log : log[i] = <<step, "ok">>
Attempted(step) == \E i \in DOMAIN log : log[i][1] = step
Failed(step) == \E i \in DOMAIN log : log[i][1] = step /\ log[i][2] # "ok"
TryBody == {"goto", "expect_heading", "expect_text", "screenshot", "print_success"}
TryEntered == Passed("new_page")
RunOver == pc \in {"exit", "done"}
Before(a, b) ==
  \A j \in DOMAIN log : log[j][1] = b => \E i \in 1..(j - 1) : log[i][1] = a

\* C1: in every run in which launch returned a browser, browser.close() has
\* been called by the time run() returns or raises, whichever step failed
\* (new_page included).
C1_BrowserReleased == (RunOver /\ launched) => closeCalls >= 1

\* C2: browser.close() executes exactly once per run that entered the guarded
\* block, never twice, whichever of goto, the heading wait and the text wait
\* raised, and also when none raised.
C2_CloseExactlyOnce ==
  /\ closeCalls <= 1
  /\ (RunOver /\ TryEntered) => closeCalls = 1
  /\ \A step \in {"goto", "expect_heading", "expect_text"} :
       (RunOver /\ Failed(step)) => closeCalls = 1

C2_Witness ==
  /\ pc = "done"
  /\ Failed("expect_text")
  /\ closeCalls = 1

\* C3: the exit status is always zero: no exception raised after the guarded
\* block was entered propagates out of run(), a failure of the diagnostic
\* screenshot inside the handler included (stated for the runs whose close()
\* returned).
C3_ExitStatusZero ==
  (pc = "done" /\ TryEntered /\ ~Failed("close")) =>
     (raised = NoExc /\ exitStatus = <<0>>)

\* --- C4: the handling of an exception raised inside the guarded block
RaisedInTry == \E step \in TryBody : Failed(step)

\* the log ends: failing statement, print_error, error screenshot, close
HandledInOrder ==
  \E i \in DOMAIN log :
    /\ log[i][1] \in TryBody /\ log[i][2] # "ok"
    /\ e = log[i][2]
    /\ Len(log) = i + 3
    /\ log[i + 1] = <<"print_error", "ok">>
    /\ log[i + 2][1] = "error_screenshot"
    /\ log[i + 3][1] = "close"
    /\ stdout = <<<<ErrorMsg, e>>>>
    /\ closeCalls = 1

\* C4 as stated: every exception raised inside the guarded block is handled
\* the same way (message printed, error screenshot attempted, browser closed,
\* in that order); when the heading never becomes visible the error
\* screenshot is written, the message is printed and the browser is closed.
C4_Original ==
  /\ (RunOver /\ RaisedInTry) => HandledInOrder
  /\ (RunOver /\ Failed("expect_heading")) =>
        /\ ErrorPath \in files
        /\ stdout = <<<<ErrorMsg, e>>>>
        /\ closeCalls = 1

\* C4 amended: every exception raised inside the guarded block is handled the
\* same way (message printed, error screenshot attempted, browser closed, in
\* that order); when the heading never becomes visible the message is
\* printed, the browser is closed, and the error screenshot is written
\* exactly when the screenshot call of the handler returns normally.
C4_Amended ==
  /\ (RunOver /\ RaisedInTry) => HandledInOrder
  /\ (RunOver /\ RaisedInTry) =>
        /\ (ErrorPath \in files <=> Passed("error_screenshot"))
        /\ SuccessPath \notin files
  /\ (RunOver /\ Failed("expect_heading")) =>
        /\ stdout = <<<<ErrorMsg, e>>>>
        /\ closeCalls = 1
        /\ files = IF Passed("error_screenshot") THEN {ErrorPath} ELSE {}

C4_Witness ==
  /\ pc = "done"
  /\ Failed("expect_heading")
  /\ e = "AssertionError"
  /\ ErrorPath \in files
  /\ closeCalls = 1

\* C5: when goto, both waits and the screenshot succeed, the run writes the
\* success screenshot, then prints the success message, writes no error
\* screenshot, prints no error message and closes the browser.
C5_SuccessPath ==
  (RunOver /\ Passed("goto") /\ Passed("expect_heading")
           /\ Passed("expect_text") /\ Passed("screenshot")) =>
     /\ files = {SuccessPath}
     /\ stdout = <<<<SuccessMsg>>>>
     /\ closeCalls = 1
     /\ Before("screenshot", "print_success")
     /\ Before("print_success", "close")
     /\ ~Attempted("print_error") /\ ~Attempted("error_screenshot")

C5_Witness ==
  /\ pc = "done"
  /\ Passed("screenshot")
  /\ stdout = <<<<SuccessMsg>>>>
  /\ exitStatus = <<0>>

\* C8: the statements of the guarded block run in order and a failed one
\* skips the later ones: the heading wait only after goto returned, the text
\* wait only after the heading wait passed, the success screenshot only after
\* both waits passed; no statement of the block runs after one of them raised.
C8_LinearOrder ==
  /\ Attempted("expect_heading") => Passed("goto")
  /\ Attempted("expect_text") => Passed("expect_heading")
  /\ Attempted("screenshot") => Passed("expect_heading") /\ Passed("expect_text")
  /\ Attempted("print_success") => Passed("screenshot")
  /\ \A i, j \in DOMAIN log :
       (i < j /\ log[i][1] \in TryBody /\ log[i][2] # "ok") => log[j][1] \notin TryBody
  /\ \A i, j \in DOMAIN log : (log[i][1] = log[j][1]) => i = j

C8_Witness ==
  /\ pc = "done"
  /\ Passed("goto")
  /\ Failed("expect_heading")
  /\ ~Attempted("expect_text")

\* C9: provided every external call eventually returns or raises, every run
\* in which a browser was launched eventually reaches the browser-close step
\* and then finishes.
C9_ReachesClose == launched ~> (closeCalls = 1 /\ pc = "done")

\* every run of Script B finishes (the part of C9 that does hold)
RunTerminates == <>(pc = "done")

\* C10: the success message and the error message are never both printed;
\* the success message is printed only if the success screenshot call
\* returned; the error screenshot is attempted only if the success message
\* was not printed.
C10_Exclusive ==
  /\ ~(Attempted("print_success") /\ Attempted("print_error"))
  /\ \A i \in DOMAIN stdout : \A k \in DOMAIN stdout :
       ~(stdout[i][1] = SuccessMsg /\ stdout[k][1] = ErrorMsg)
  /\ (\E i \in DOMAIN stdout : stdout[i][1] = SuccessMsg) =>
        Passed("screenshot") /\ SuccessPath \in files
  /\ Attempted("error_screenshot") =>
        \A i \in DOMAIN stdout : stdout[i][1] # SuccessMsg

C10_Witness ==
  /\ pc = "done"
  /\ Failed("screenshot")
  /\ Attempted("error_screenshot")
  /\ stdout = <<<<ErrorMsg, e>>>>

\* --- reading the output of Script A
FetchReturned == fetchCalls = 1 /\ raisedA = NoExc /\ pcA \in {"loop", "exit", "done"}
PairLines == SubSeq(stdoutA, 2, Len(stdoutA))

\* C6: for a mapping of n entries exactly min(n, 5) pair lines are printed,
\* the first min(n, 5) entries in the mapping's iteration order; for n < 5
\* there is no padding and no error, and the process exits 0.
C6_FirstFive ==
  (pcA = "done" /\ FetchReturned) =>
     /\ Len(PairLines) = (IF Len(pairs) < 5 THEN Len(pairs) ELSE 5)
     /\ \A i \in DOMAIN PairLines : PairLines[i] = <<pairs[i], Info(pairs[i])>>
     /\ stdoutA[1] = <<FetchingMsg>>
     /\ exitStatusA = <<0>>

C6_Witness ==
  /\ pcA = "done"
  /\ Len(pairs) = 6
  /\ pairs[1] = 3
  /\ Len(PairLines) = 5

C6_WitnessShort ==
  /\ pcA = "done"
  /\ FetchReturned
  /\ Len(pairs) = 2
  /\ Len(PairLines) = 2

\* C7: when client construction or get_pairs_info raises, the fault
\* propagates uncaught, the process exits nonzero, no pair line is printed
\* and get_pairs_info is invoked at most once.
C7_FaultPropagates ==
  /\ fetchCalls <= 1
  /\ raisedA # NoExc =>
        /\ pcA \in {"exit", "done"}
        /\ idx = 0
        /\ \A i \in DOMAIN stdoutA : stdoutA[i] = <<FetchingMsg>>
        /\ Len(stdoutA) = fetchCalls
        /\ pcA = "done" => exitStatusA = <<1>>
  /\ (pcA = "done" /\ exitStatusA = <<0>>) => raisedA = NoExc

C7_Witness ==
  /\ pcA = "done"
  /\ fetchCalls = 1
  /\ raisedA = "ConnectionError"
  /\ exitStatusA = <<1>>

====
